---- MODULE Spec2Model ----
(***************************************************************************)
(* Model of jsonstream: decoding a stream of concatenated JSON documents.  *)
(*                                                                         *)
(* Text is a sequence of one-character strings.  Positions are 0-based as  *)
(* in the Python source; At and Slice translate to 1-based sequences.      *)
(***************************************************************************)
EXTENDS Integers, Sequences, FiniteSets, TLC

\* ---------------------------------------------------------------- text --

None == -1            \* Python None where a position is expected
Inf == -1             \* float('inf') as max_bufsize
DefaultBufsize == 1048576

Min(a, b) == IF a <= b THEN a ELSE b

At(s, i) == s[i + 1]

\* s[i:j] for 0 <= i, clamped at the end of s like a Python slice
Slice(s, i, j) == SubSeq(s, i + 1, Min(j, Len(s)))

\* s[i:]
Tail0(s, i) == SubSeq(s, i + 1, Len(s))

\* s[i] with Python's wrap-around of a negative index
PyIndex(s, i) == IF i < 0 THEN s[Len(s) + i + 1] ELSE s[i + 1]

\* s.startswith(prefix, pos)
startswith(s, prefix, pos) ==
    /\ pos <= Len(s)
    /\ Slice(s, pos, pos + Len(prefix)) = prefix

\* kw.startswith(rest)
IsPrefixOf(rest, kw) ==
    /\ Len(rest) <= Len(kw)
    /\ SubSeq(kw, 1, Len(rest)) = rest

Digits == {"0", "1", "2", "3", "4", "5", "6", "7", "8", "9"}

isdigit(c) == c \in Digits

DigitVal(c) ==
    CASE c = "0" -> 0 [] c = "1" -> 1 [] c = "2" -> 2 [] c = "3" -> 3
      [] c = "4" -> 4 [] c = "5" -> 5 [] c = "6" -> 6 [] c = "7" -> 7
      [] c = "8" -> 8 [] c = "9" -> 9

HexDigits == Digits \cup {"a", "b", "c", "d", "e", "f", "A", "B", "C", "D", "E", "F"}

HexVal(c) ==
    CASE c \in Digits -> DigitVal(c)
      [] c \in {"a", "A"} -> 10 [] c \in {"b", "B"} -> 11
      [] c \in {"c", "C"} -> 12 [] c \in {"d", "D"} -> 13
      [] c \in {"e", "E"} -> 14 [] c \in {"f", "F"} -> 15

\* whitespace skipped inside a document by the json module (' \t\n\r')
JsonWs == {" ", "\t", "\n", "\r"}

\* characters that the regex \S does not match
ReSpace == {" ", "\t", "\n", "\r", "\f"}

\* characters below 0x20, which end a string chunk
ControlChars == {"\t", "\n", "\r", "\f"}

\* the printable ASCII characters chr(32) to chr(95) and chr(97) to chr(126)
PrintableLow ==
    <<" ", "!", "\"", "#", "$", "%", "&", "'", "(", ")", "*", "+",
      ",", "-", ".", "/", "0", "1", "2", "3", "4", "5", "6", "7",
      "8", "9", ":", ";", "<", "=", ">", "?", "@", "A", "B", "C",
      "D", "E", "F", "G", "H", "I", "J", "K", "L", "M", "N", "O",
      "P", "Q", "R", "S", "T", "U", "V", "W", "X", "Y", "Z", "[",
      "\\", "]", "^", "_">>

PrintableHigh ==
    <<"a", "b", "c", "d", "e", "f", "g", "h", "i", "j", "k", "l",
      "m", "n", "o", "p", "q", "r", "s", "t", "u", "v", "w", "x",
      "y", "z", "{", "|", "}", "~">>

\* ord() of a printable character
Ord(c) ==
    IF \E i \in 1..Len(PrintableLow) : PrintableLow[i] = c
    THEN 31 + (CHOOSE i \in 1..Len(PrintableLow) : PrintableLow[i] = c)
    ELSE 96 + (CHOOSE i \in 1..Len(PrintableHigh) : PrintableHigh[i] = c)

RECURSIVE Ords(_)
Ords(s) == IF s = <<>> THEN <<>> ELSE <<Ord(Head(s))>> \o Ords(Tail(s))

\* -------------------------------------------------------------- values --

Val(t, n, e, s, items) == [t |-> t, n |-> n, e |-> e, s |-> s, items |-> items]

NullVal == Val("null", 0, 0, <<>>, <<>>)
BoolVal(b) == Val("bool", IF b THEN 1 ELSE 0, 0, <<>>, <<>>)
IntVal(n) == Val("int", n, 0, <<>>, <<>>)
StrVal(s) == Val("str", 0, 0, s, <<>>)
ListVal(items) == Val("list", 0, 0, <<>>, items)
ConstVal(name) == Val(name, 0, 0, <<>>, <<>>)
Member(key, v) == Val("member", 0, 0, key, <<v>>)

RECURSIVE Normalise(_, _)
Normalise(m, e) ==
    IF m = 0 THEN Val("float", 0, 0, <<>>, <<>>)
    ELSE IF m % 10 = 0 THEN Normalise(m \div 10, e + 1)
    ELSE Val("float", m, e, <<>>, <<>>)

\* dict(pairs): a key keeps its first position and takes its last value
RECURSIVE DictItems(_, _)
DictItems(acc, pairs) ==
    IF pairs = <<>> THEN acc
    ELSE LET p == Head(pairs)
             hit == {i \in 1..Len(acc) : acc[i].s = p.s}
         IN  IF hit = {}
             THEN DictItems(Append(acc, p), Tail(pairs))
             ELSE DictItems([acc EXCEPT ![CHOOSE i \in hit : TRUE] = p], Tail(pairs))

DictVal(pairs) == Val("dict", 0, 0, <<>>, DictItems(<<>>, pairs))

\* isinstance(obj, (int, float)): bool is a subclass of int and the
\* constants NaN, Infinity, -Infinity are floats
IsNumber(v) == v.t \in {"int", "float", "bool", "NaN", "Infinity", "-Infinity"}

\* ----------------------------------------- the single-document parser --
\* json.JSONDecoder.raw_decode as run by CPython (c_make_scanner and
\* c_scanstring): a result is a value with its end position, a decode
\* error with its message and position, or StopIteration(idx).

Ok(obj, end) == [st |-> "ok", obj |-> obj, end |-> end, msg |-> ""]
Err(msg, pos) == [st |-> "err", obj |-> NullVal, end |-> pos, msg |-> msg]
Stop(idx) == [st |-> "stop", obj |-> NullVal, end |-> idx, msg |-> ""]

\* first index >= i of s that holds no JSON whitespace (len(s) if none)
RECURSIVE SkipWs(_, _)
SkipWs(s, i) ==
    IF i < Len(s) /\ At(s, i) \in JsonWs THEN SkipWs(s, i + 1) ELSE i

\* first index >= i of s that holds no digit (len(s) if none)
RECURSIVE DigitsEnd(_, _)
DigitsEnd(s, i) ==
    IF i < Len(s) /\ isdigit(At(s, i)) THEN DigitsEnd(s, i + 1) ELSE i

\* s[i:i+1], "" past the end
CharAt(s, i) == IF i < Len(s) THEN At(s, i) ELSE ""

\* int() of a run of decimal digits
RECURSIVE DecOf(_, _)
DecOf(acc, ds) ==
    IF ds = <<>> THEN acc ELSE DecOf(acc * 10 + DigitVal(Head(ds)), Tail(ds))

\* int(s, 16) of a run of hex digits
RECURSIVE HexOf(_, _)
HexOf(acc, ds) ==
    IF ds = <<>> THEN acc ELSE HexOf(acc * 16 + HexVal(Head(ds)), Tail(ds))

\* NUMBER_RE = (-?(?:0|[1-9]\d*))(\.\d+)?([eE][-+]?\d+)? matched at idx:
\* the value of the literal from its sign, integer digits, fraction digits
\* and exponent; without fraction and exponent it is an int
NumberValue(sign, intDigits, fracDigits, hasExp, expVal) ==
    IF fracDigits # <<>> \/ hasExp
    THEN Normalise(sign * DecOf(0, intDigits \o fracDigits), expVal - Len(fracDigits))
    ELSE IntVal(sign * DecOf(0, intDigits))

\* the exponent part, whose digits are s[s0:expEnd]
NumberExp(s, idx, i0, intEnd, fracEnd, s0, expEnd) ==
    Ok(NumberValue(IF i0 > idx THEN -1 ELSE 1,
                   Slice(s, i0, intEnd),
                   Slice(s, intEnd + 1, fracEnd),
                   expEnd > fracEnd,
                   IF expEnd > fracEnd
                   THEN (IF CharAt(s, fracEnd + 1) = "-" THEN -1 ELSE 1)
                            * DecOf(0, Slice(s, s0, expEnd))
                   ELSE 0),
       expEnd)

\* ([eE][-+]?\d+)? at fracEnd, its digits starting at s0
NumberExpAt(s, idx, i0, intEnd, fracEnd, s0) ==
    NumberExp(s, idx, i0, intEnd, fracEnd, s0,
              IF CharAt(s, fracEnd) \in {"e", "E"} /\ isdigit(CharAt(s, s0))
              THEN DigitsEnd(s, s0) ELSE fracEnd)

\* (\.\d+)? has been matched up to fracEnd
NumberFrac(s, idx, i0, intEnd, fracEnd) ==
    NumberExpAt(s, idx, i0, intEnd, fracEnd,
                IF CharAt(s, fracEnd + 1) \in {"-", "+"} THEN fracEnd + 2 ELSE fracEnd + 1)

\* (?:0|[1-9]\d*) has been matched up to intEnd
NumberInt(s, idx, i0, intEnd) ==
    NumberFrac(s, idx, i0, intEnd,
               IF CharAt(s, intEnd) = "." /\ isdigit(CharAt(s, intEnd + 1))
               THEN DigitsEnd(s, intEnd + 1) ELSE intEnd)

\* -? has been matched up to i0
NumberSign(s, idx, i0) ==
    IF ~isdigit(CharAt(s, i0)) THEN Stop(idx)
    ELSE NumberInt(s, idx, i0, IF CharAt(s, i0) = "0" THEN i0 + 1 ELSE DigitsEnd(s, i0))

match_number(s, idx) ==
    NumberSign(s, idx, IF CharAt(s, idx) = "-" THEN idx + 1 ELSE idx)

\* the character a backslash escape stands for, 0 if it is not an escape
Unescape(c) ==
    CASE c = "\"" -> 34 [] c = "\\" -> 92 [] c = "/" -> 47 [] c = "b" -> 8
      [] c = "f" -> 12 [] c = "n" -> 10 [] c = "r" -> 13 [] c = "t" -> 9
      [] OTHER -> 0

\* first index >= i that holds a quote, a backslash or a control character
RECURSIVE ChunkEnd(_, _)
ChunkEnd(s, i) ==
    IF i < Len(s) /\ At(s, i) \notin ({"\"", "\\"} \cup ControlChars)
    THEN ChunkEnd(s, i + 1) ELSE i

AllHex(ds) == \A k \in 1..Len(ds) : ds[k] \in HexDigits

RECURSIVE ScanChunks(_, _, _, _)

\* a high surrogate uni is followed by \uXXXX with the value uni2
ScanPair(s, begin, chunk, u1, uni, uni2) ==
    IF uni2 >= 56320 /\ uni2 <= 57343
    THEN ScanChunks(s, begin, u1 + 6,
             Append(chunk, 65536 + (uni - 55296) * 1024 + (uni2 - 56320)))
    ELSE ScanChunks(s, begin, u1, Append(chunk, uni))

\* \uXXXX has been decoded to uni; u1 is the index after it
ScanUnicode(s, begin, chunk, u1, uni) ==
    IF ~(/\ uni >= 55296 /\ uni <= 56319 /\ u1 + 6 < Len(s)
         /\ CharAt(s, u1) = "\\" /\ CharAt(s, u1 + 1) = "u")
    THEN ScanChunks(s, begin, u1, Append(chunk, uni))
    ELSE IF ~AllHex(Slice(s, u1 + 2, u1 + 6))
    THEN Err("Invalid \\uXXXX escape", u1 + 1)
    ELSE ScanPair(s, begin, chunk, u1, uni, HexOf(0, Slice(s, u1 + 2, u1 + 6)))

\* a backslash at next is followed by esc
ScanEscape(s, begin, chunk, next, esc) ==
    IF esc # "u"
    THEN IF Unescape(esc) = 0 THEN Err("Invalid \\escape", next)
         ELSE ScanChunks(s, begin, next + 2, Append(chunk, Unescape(esc)))
    ELSE IF next + 6 >= Len(s) THEN Err("Invalid \\uXXXX escape", next + 1)
    ELSE IF ~AllHex(Slice(s, next + 2, next + 6))
    THEN Err("Invalid \\uXXXX escape", next + 1)
    ELSE ScanUnicode(s, begin, chunk, next + 6, HexOf(0, Slice(s, next + 2, next + 6)))

\* the chunk ends at next, with the character c
ScanTerminator(s, begin, chunk, next, c) ==
    IF next >= Len(s) THEN Err("Unterminated string starting at", begin)
    ELSE IF c \in ControlChars THEN Err("Invalid control character at", next)
    ELSE IF c = "\"" THEN Ok(StrVal(chunk), next + 1)
    ELSE IF next + 1 = Len(s) THEN Err("Unterminated string starting at", begin)
    ELSE ScanEscape(s, begin, chunk, next, CharAt(s, next + 1))

ScanChunk(s, begin, end, acc, next) ==
    ScanTerminator(s, begin, acc \o Ords(Slice(s, end, next)), next, CharAt(s, next))

\* the loop of scanstring: acc holds the characters decoded so far
ScanChunks(s, begin, end, acc) == ScanChunk(s, begin, end, acc, ChunkEnd(s, end))

\* scanstring(s, end): end is the index after the opening quote
scanstring(s, end) == ScanChunks(s, end - 1, end, <<>>)

RECURSIVE scan_once(_, _), ArrayLoop(_, _, _), ObjectLoop(_, _, _)

\* StopIteration out of scan_once becomes "Expecting value"
StopToError(r) == IF r.st = "stop" THEN Err("Expecting value", r.end) ELSE r

ScanValue(s, idx) == StopToError(scan_once(s, idx))

\* after an item of an array: e1 is the index of the next token
ArrayDelimiter(s, values, e1) ==
    IF CharAt(s, e1) = "]" THEN Ok(ListVal(values), e1 + 1)
    ELSE IF CharAt(s, e1) # "," THEN Err("Expecting ',' delimiter", e1)
    ELSE ArrayLoop(s, SkipWs(s, e1 + 1), values)

ArrayItem(s, values, r) ==
    IF r.st # "ok" THEN r
    ELSE ArrayDelimiter(s, Append(values, r.obj), SkipWs(s, r.end))

\* the loop of JSONArray, from the item at end on
ArrayLoop(s, end, values) == ArrayItem(s, values, ScanValue(s, end))

ArrayStart(s, e0) ==
    IF CharAt(s, e0) = "]" THEN Ok(ListVal(<<>>), e0 + 1)
    ELSE ArrayLoop(s, e0, <<>>)

JSONArray(s, end) == ArrayStart(s, SkipWs(s, end))

\* after the ',' of an object: e4 is the index of the next token
ObjectNextKey(s, pairs, e4) ==
    IF CharAt(s, e4) # "\""
    THEN Err("Expecting property name enclosed in double quotes", e4)
    ELSE ObjectLoop(s, e4 + 1, pairs)

\* after a member of an object: e3 is the index of the next token
ObjectDelimiter(s, pairs, e3) ==
    IF CharAt(s, e3) = "}" THEN Ok(DictVal(pairs), e3 + 1)
    ELSE IF CharAt(s, e3) # "," THEN Err("Expecting ',' delimiter", e3)
    ELSE ObjectNextKey(s, pairs, SkipWs(s, e3 + 1))

ObjectMember(s, pairs, key, r) ==
    IF r.st # "ok" THEN r
    ELSE ObjectDelimiter(s, Append(pairs, Member(key, r.obj)), SkipWs(s, r.end))

\* after a key: e1 is the index of the next token
ObjectColon(s, pairs, key, e1) ==
    IF CharAt(s, e1) # ":" THEN Err("Expecting ':' delimiter", e1)
    ELSE ObjectMember(s, pairs, key, ScanValue(s, SkipWs(s, e1 + 1)))

ObjectKey(s, pairs, k) ==
    IF k.st # "ok" THEN k
    ELSE ObjectColon(s, pairs, k.obj.s, SkipWs(s, k.end))

\* the loop of JSONObject: end is the index after a key's opening quote
ObjectLoop(s, end, pairs) == ObjectKey(s, pairs, scanstring(s, end))

ObjectStart(s, e0) ==
    IF CharAt(s, e0) = "}" THEN Ok(DictVal(<<>>), e0 + 1)
    ELSE IF CharAt(s, e0) # "\""
    THEN Err("Expecting property name enclosed in double quotes", e0)
    ELSE ObjectLoop(s, e0 + 1, <<>>)

JSONObject(s, end) == ObjectStart(s, SkipWs(s, end))

kw_null == <<"n", "u", "l", "l">>
kw_true == <<"t", "r", "u", "e">>
kw_false == <<"f", "a", "l", "s", "e">>
kw_NaN == <<"N", "a", "N">>
kw_Infinity == <<"I", "n", "f", "i", "n", "i", "t", "y">>
kw_NegInfinity == <<"-">> \o kw_Infinity

\* the branches of scan_once after the keywords null, true and false:
\* m is the match of the number pattern
ScanNumber(s, idx, m) ==
    IF m.st = "ok" THEN m
    ELSE IF Slice(s, idx, idx + 3) = kw_NaN THEN Ok(ConstVal("NaN"), idx + 3)
    ELSE IF Slice(s, idx, idx + 8) = kw_Infinity THEN Ok(ConstVal("Infinity"), idx + 8)
    ELSE IF Slice(s, idx, idx + 9) = kw_NegInfinity
    THEN Ok(ConstVal("-Infinity"), idx + 9)
    ELSE Stop(idx)

scan_once(s, idx) ==
    IF idx >= Len(s) THEN Stop(idx)
    ELSE IF CharAt(s, idx) = "\"" THEN scanstring(s, idx + 1)
    ELSE IF CharAt(s, idx) = "{" THEN JSONObject(s, idx + 1)
    ELSE IF CharAt(s, idx) = "[" THEN JSONArray(s, idx + 1)
    ELSE IF Slice(s, idx, idx + 4) = kw_null THEN Ok(NullVal, idx + 4)
    ELSE IF Slice(s, idx, idx + 4) = kw_true THEN Ok(BoolVal(TRUE), idx + 4)
    ELSE IF Slice(s, idx, idx + 5) = kw_false THEN Ok(BoolVal(FALSE), idx + 5)
    ELSE ScanNumber(s, idx, match_number(s, idx))

\* decoder.raw_decode(s, idx)
raw_decode(s, idx) == ScanValue(s, idx)

\* ------------------------------------------------- separator policies --

NoSeparator == <<>>          \* separator=None: documents are separated by whitespace

\* ''.join(text) as one string
RECURSIVE StringOf(_)
StringOf(text) == IF text = <<>> THEN "" ELSE Head(text) \o StringOf(Tail(text))

\* f'Expected {separator!r} delimiter', for a separator without quotes
delimiter_message(sep) == "Expected '" \o StringOf(sep) \o "' delimiter"

\* next_position_by_separator: a position, None, or "raise ValueError"
Raises == -2

next_position_by_separator(sep, document, p) ==
    IF startswith(document, sep, p) THEN p + Len(sep)
    ELSE IF p = Len(document) THEN None
    ELSE Raises

\* NOT_WHITESPACE.search(document, pos): the first index >= pos that holds
\* a non-whitespace character
RECURSIVE next_position_by_non_whitespace(_, _)
next_position_by_non_whitespace(document, p) ==
    IF p >= Len(document) THEN None
    ELSE IF At(document, p) \notin ReSpace THEN p
    ELSE next_position_by_non_whitespace(document, p + 1)

\* the next_pos function chosen by get_first_pos_and_next_pos_func
next_pos_helper(sep, document, p) ==
    IF sep = NoSeparator THEN next_position_by_non_whitespace(document, p)
    ELSE next_position_by_separator(sep, document, p)

\* the first position taken to be the start of the text under either policy
first_pos_at_start(sep) == 0

\* the first position chosen by get_first_pos_and_next_pos_func
first_pos(sep) == IF sep = NoSeparator THEN None ELSE 0

\* ------------------------------------------------------ one-shot loads --

Outcome(values, result, type, msg, p) ==
    [values |-> values, result |-> result, type |-> type, msg |-> msg, pos |-> p]

\* the loop of decode_stacked from a known start position on
RECURSIVE StackedLoop(_, _, _, _)
StackedLoop(document, sep, p, values) ==
    LET r == raw_decode(document, p)
        np == next_pos_helper(sep, document, r.end)
    IN  IF r.st = "err"
        THEN Outcome(values, "raised", "JSONDecodeError", r.msg, r.end)
        ELSE IF np = Raises
        THEN Outcome(Append(values, r.obj), "raised", "ValueError",
                     delimiter_message(sep), None)
        ELSE IF np = None
        THEN Outcome(Append(values, r.obj), "returned", "", "", None)
        ELSE StackedLoop(document, sep, np, Append(values, r.obj))

decode_stacked(document, sep, p) ==
    LET p0 == IF p = None THEN next_pos_helper(sep, document, 0) ELSE p
    IN  IF document = <<>> THEN Outcome(<<>>, "returned", "", "", None)
        ELSE IF p0 = None THEN Outcome(<<>>, "returned", "", "", None)
        ELSE StackedLoop(document, sep, p0, <<>>)

\* loads(s, separator=sep)
loads(s, sep) == decode_stacked(s, sep, first_pos(sep))

\* loads(s, pos=p, separator=sep): the assignment of the policy's first
\* position to pos replaces the argument before it is used
loads_pos(s, p, sep) == decode_stacked(s, sep, first_pos(sep))

\* -------------------------------------------------------------- bounds --

MaxDocs == 2        \* documents written to one stream
MaxBufsize == 3     \* read quanta 1..MaxBufsize, and the default quantum
MaxLead == 2        \* blanks written before the first document
MaxStops == 1       \* requests made after the end of the sequence
MaxBound == 7       \* finite values of max_bufsize are 1..MaxBound
MaxIters == 2       \* times an iterator is obtained from one session

\* --------------------------------------------------------- DecodeStream --

VARIABLES
    written,        \* how the stream's text was written: documents, joiner, leading blanks
    source,         \* the text the stream delivers
    srcPos,         \* number of units read from the stream so far
    separator,      \* NoSeparator or the literal separator
    bufsize,        \* read quantum
    max_bufsize,    \* bound on the buffer, or Inf
    initial_offset, \* the stream_offset argument of load
    partial_doc,    \* self.partial_doc: the buffer
    pos,            \* self.pos: the cursor, None before the first scan
    stream_offset,  \* self.stream_offset
    pc,             \* where the generator stands
    emitted,        \* the values yielded so far
    error,          \* the exception raised to the caller, if any
    stops,          \* requests answered with StopIteration after the end
    call,           \* a call of loads and its result, NoCall in a load session
    reads,          \* the reads the stream has served: size asked for, size delivered
    first,          \* what an earlier session over the same text did, if there was one
    iters           \* calls of __iter__ so far: self._iter is None iff there was none

vars == <<written, source, srcPos, separator, bufsize, max_bufsize, initial_offset,
          partial_doc, pos, stream_offset, pc, emitted, error, stops, call, reads,
          first, iters>>

config == <<written, source, separator, bufsize, max_bufsize, initial_offset, call,
            first, iters>>

\* list(loads(s, pos=p, separator=sep)) before it is evaluated
LoadsCall(s, p, sep) ==
    [s |-> s, pos |-> p, separator |-> sep, done |-> FALSE,
     out |-> Outcome(<<>>, "", "", "", None)]

NoCall == LoadsCall(<<>>, None, NoSeparator)

NoError ==
    [type |-> "", msg |-> "", pos |-> None, stream_offset |-> None, source_index |-> None]

ValueError(msg) ==
    [type |-> "ValueError", msg |-> msg, pos |-> None, stream_offset |-> None,
     source_index |-> None]

\* what a finished session did: values, reads, outcome, error, and offsets
Session(values, served, outcome, ex, offset0, offset) ==
    [emitted |-> values, reads |-> served, pc |-> outcome, error |-> ex,
     initial_offset |-> offset0, stream_offset |-> offset]

NoSession == Session(<<>>, <<>>, "", NoError, None, None)

KEYWORDS == <<kw_null, kw_true, kw_false, kw_NaN, kw_Infinity, kw_NegInfinity>>

\* the length of the shortest keyword, taken for that of the longest
MIN_KEYWORD_LEN ==
    CHOOSE n \in {Len(KEYWORDS[i]) : i \in 1..Len(KEYWORDS)} :
        \A i \in 1..Len(KEYWORDS) : n <= Len(KEYWORDS[i])

MAX_KEYWORD_LEN ==
    CHOOSE n \in {Len(KEYWORDS[i]) : i \in 1..Len(KEYWORDS)} :
        \A i \in 1..Len(KEYWORDS) : Len(KEYWORDS[i]) <= n

\* the messages error_message_pattern matches
RetryMessages ==
    {"Unterminated string starting at", "Expecting value",
     "Expecting property name enclosed in double quotes",
     "Expecting ',' delimiter", "Expecting ':' delimiter"}

\* ex.msg.startswith('Expecting')
IsExpecting(msg) == msg \in RetryMessages \ {"Unterminated string starting at"}

\* the same case taken for any failure at the last unit of the buffer
SplitFloatAnyUnit(ex_pos, ex_doc) == ex_pos = Len(ex_doc) - 1

\* the "float split by the buffer" case of _match_error
SplitFloat(ex_pos, ex_doc) ==
    /\ ex_pos = Len(ex_doc) - 1
    /\ At(ex_doc, ex_pos) = "."
    /\ isdigit(PyIndex(ex_doc, ex_pos - 1))

\* the "keyword split by the buffer" case of _match_error
SplitKeyword(ex_msg, ex_pos, ex_doc) ==
    /\ ex_msg = "Expecting value"
    /\ Len(ex_doc) - ex_pos < MAX_KEYWORD_LEN
    /\ \E i \in 1..Len(KEYWORDS) : IsPrefixOf(Tail0(ex_doc, ex_pos), KEYWORDS[i])

\* every failure taken for one that new data may resolve
match_any_error(ex_msg, ex_pos, ex_doc) == TRUE

\* _match_error(ex): would new data be useful?
match_error(ex_msg, ex_pos, ex_doc) ==
    IF ex_msg \in RetryMessages /\ IsExpecting(ex_msg)
    THEN \/ ex_pos = Len(ex_doc)
         \/ SplitFloat(ex_pos, ex_doc)
         \/ SplitKeyword(ex_msg, ex_pos, ex_doc)
    ELSE ex_msg \in RetryMessages

\* the same test without the allowance of one unit for a trailing '.'
number_may_be_split_at_end(new_pos, document, obj) ==
    new_pos >= Len(document) /\ IsNumber(obj)

\* the test that guards the refill after a successful parse
number_may_be_split(new_pos, document, obj) ==
    new_pos >= Len(document) - 1 /\ IsNumber(obj)

\* the size of a read request that ends at a multiple of the quantum, counted
\* in the coordinates of the whole stream
to_read_aligned(remaining_buffer) ==
    bufsize - ((stream_offset + Len(partial_doc)) % bufsize)

\* _try_read: the size of the read request (<= 0: the bound is exhausted)
to_read(remaining_buffer) ==
    IF max_bufsize # Inf /\ Len(remaining_buffer) + bufsize > max_bufsize
    THEN max_bufsize - Len(remaining_buffer)
    ELSE bufsize

\* _try_read raises ValueError('max buffer size exceeded')
read_raises(remaining_buffer) ==
    /\ max_bufsize # Inf
    /\ Len(remaining_buffer) + bufsize > max_bufsize
    /\ to_read(remaining_buffer) <= 0

\* self.stream.read(n)
stream_read(n) == Slice(source, srcPos, srcPos + n)

\* the same refill reporting new data even when the stream delivered none
try_read_claiming_data(remaining_buffer) ==
    LET new == stream_read(to_read(remaining_buffer))
    IN  [new |-> IF new = <<>> THEN <<"">> ELSE new,
         to_read |-> to_read(remaining_buffer),
         stream_offset |-> stream_offset + Len(partial_doc) - Len(remaining_buffer),
         partial_doc |-> remaining_buffer \o new,
         pos |-> 0,
         srcPos |-> srcPos + Len(new)]

\* the same refill with the offset advanced by the whole old buffer
try_read_dropping_all(remaining_buffer) ==
    LET new == stream_read(to_read(remaining_buffer))
    IN  [new |-> new,
         to_read |-> to_read(remaining_buffer),
         stream_offset |-> stream_offset + Len(partial_doc),
         partial_doc |-> remaining_buffer \o new,
         pos |-> 0,
         srcPos |-> srcPos + Len(new)]

\* the fields _try_read(remaining_buffer) leaves behind, and what it read
try_read(remaining_buffer) ==
    LET new == stream_read(to_read(remaining_buffer))
    IN  [new |-> new,
         to_read |-> to_read(remaining_buffer),
         stream_offset |-> stream_offset + Len(partial_doc) - Len(remaining_buffer),
         partial_doc |-> remaining_buffer \o new,
         pos |-> 0,
         srcPos |-> srcPos + Len(new)]

\* the exception is reported and the generator goes on to the next document
RaiseAndResume(ex) ==
    /\ pc' = "next_pos"
    /\ error' = ex

\* the exception leaves the generator: the session is over
Raise(ex) ==
    /\ pc' = "raised"
    /\ error' = ex

BufferOverflow ==
    /\ Raise(ValueError("max buffer size exceeded"))
    /\ UNCHANGED <<srcPos, reads, partial_doc, pos, stream_offset, emitted>>

\* the fields as _try_read left them
AfterRead(rd) ==
    /\ srcPos' = rd.srcPos
    /\ reads' = Append(reads, <<rd.to_read, Len(rd.new)>>)
    /\ partial_doc' = rd.partial_doc
    /\ stream_offset' = rd.stream_offset

\* the caller asks for the next value: next() on the iterator
Request ==
    /\ pc \in {"created", "yielded", "returned", "raised"}
    /\ IF pc = "created" THEN pc' = "start" /\ stops' = stops
       ELSE IF pc = "yielded" THEN pc' = "next_pos" /\ stops' = stops
       ELSE stops < MaxStops /\ stops' = stops + 1 /\ pc' = pc
    /\ UNCHANGED <<config, srcPos, reads, partial_doc, pos, stream_offset, emitted, error>>

\* _decode_stream_generator up to its loop
Begin ==
    /\ pc = "start"
    /\ IF pos = None
       THEN /\ pos' = 0
            /\ pc' = "next_pos"
            /\ UNCHANGED <<srcPos, reads, partial_doc, stream_offset, error>>
       ELSE IF read_raises(partial_doc) THEN BufferOverflow
       ELSE LET rd == try_read(partial_doc)
            IN  /\ AfterRead(rd)
                /\ pos' = rd.pos
                /\ pc' = IF rd.new # <<>> THEN "decode" ELSE "returned"
                /\ error' = error
    /\ UNCHANGED <<config, emitted, stops>>

\* one round of the loop of next_pos(), and what its caller does with the result
NextPos ==
    /\ pc = "next_pos"
    /\ LET new_pos == next_pos_helper(separator, partial_doc, pos)
       IN  IF new_pos = Raises
           THEN /\ Raise(ValueError(delimiter_message(separator)))
                /\ UNCHANGED <<srcPos, reads, partial_doc, pos, stream_offset>>
           ELSE IF new_pos = None
           THEN IF read_raises(<<>>)
                THEN BufferOverflow
                ELSE LET rd == try_read(<<>>)
                     IN  /\ AfterRead(rd)
                         /\ pos' = rd.pos
                         /\ pc' = IF rd.new # <<>> THEN "next_pos" ELSE "returned"
                         /\ error' = error
           ELSE /\ pos' = new_pos
                /\ pc' = "decode"
                /\ UNCHANGED <<srcPos, reads, partial_doc, stream_offset, error>>
    /\ UNCHANGED <<config, emitted, stops>>

\* _update_error(ex) for the JSONDecodeError of a parse of the buffer
update_error(ex, offset) ==
    [type |-> "JSONDecodeError", msg |-> ex.msg, pos |-> ex.end,
     stream_offset |-> offset,
     source_index |-> srcPos - Len(partial_doc) + ex.end]

\* one round of the loop of _decode_stream_generator
Decode ==
    /\ pc = "decode"
    /\ LET r == raw_decode(partial_doc, pos)
           tail == Tail0(partial_doc, pos)
           rd == try_read(tail)
       IN  IF r.st = "err"
           THEN IF match_error(r.msg, r.end, partial_doc)
                THEN IF read_raises(tail)
                     THEN BufferOverflow
                     ELSE /\ AfterRead(rd)
                          /\ pos' = rd.pos
                          /\ emitted' = emitted
                          /\ IF rd.new # <<>>
                             THEN pc' = "decode" /\ error' = error
                             ELSE Raise(update_error(r, rd.stream_offset))
                ELSE /\ Raise(update_error(r, stream_offset))
                     /\ UNCHANGED <<srcPos, reads, partial_doc, pos, stream_offset, emitted>>
           ELSE IF number_may_be_split(r.end, partial_doc, r.obj)
                THEN IF read_raises(tail)
                     THEN BufferOverflow
                     ELSE /\ AfterRead(rd)
                          /\ error' = error
                          /\ IF rd.new # <<>>
                             THEN pc' = "decode" /\ pos' = rd.pos /\ emitted' = emitted
                             ELSE /\ pos' = r.end
                                  /\ emitted' = Append(emitted, r.obj)
                                  /\ pc' = "yielded"
                ELSE /\ pos' = r.end
                     /\ emitted' = Append(emitted, r.obj)
                     /\ pc' = "yielded"
                     /\ UNCHANGED <<srcPos, reads, partial_doc, stream_offset, error>>
    /\ UNCHANGED <<config, stops>>

Next == Request \/ Begin \/ NextPos \/ Decode

\* --------------------------------------------------------------- inputs --

RECURSIVE Join(_, _)
Join(docs, joiner) ==
    IF docs = <<>> THEN <<>>
    ELSE IF Len(docs) = 1 THEN docs[1]
    ELSE docs[1] \o joiner \o Join(Tail(docs), joiner)

Blanks(n) == [i \in 1..n |-> " "]

\* the text of a stream written as w.lead blanks and w.docs joined by w.joiner
Render(w) == Blanks(w.lead) \o Join(w.docs, w.joiner)

SeqsUpTo(S, n) == UNION {[1..k -> S] : k \in 0..n}

Writings(pool, joiners, leads) ==
    {[docs |-> d, joiner |-> j, lead |-> l] :
        d \in SeqsUpTo(pool, MaxDocs), j \in joiners, l \in leads}

Quanta == (1..MaxBufsize) \cup {DefaultBufsize}

Comma == <<",">>
Blank == <<" ">>

\* well-formed documents of every kind
WellFormedPool ==
    {<<"[", "]">>,
     <<"[", "1", ",", " ", "2", "]">>,
     <<"{", "\"", "a", "\"", ":", "1", "}">>,
     <<"\"", "a", "\"">>,
     <<"n", "u", "l", "l">>,
     <<"t", "r", "u", "e">>,
     <<"1">>,
     <<"1", "2">>,
     <<"1", ".", "5">>,
     <<"1", "e", "+", "5">>,
     <<"\"", "\\", "u", "0", "0", "4", "1", "\"">>,
     <<"[", "1", "e", "5", "]">>}

\* texts that are no document
MalformedPool ==
    {<<"1", ".">>,
     <<"n", "u", "l">>,
     <<"x">>,
     <<"[", "1", " ", "2", "]">>,
     <<"\"", "a">>}

\* integer and decimal literals
NumberPool ==
    {<<"1">>,
     <<"0">>,
     <<"1", "2">>,
     <<"2", "3", "4">>,
     <<"1", ".", "5">>,
     <<"0", ".", "2", "5">>,
     <<"-", "3">>,
     <<"-", "0", ".", "5">>,
     <<"1", "0", ".", "0", "5">>}

\* the keyword literals
KeywordPool ==
    {<<"n", "u", "l", "l">>,
     <<"t", "r", "u", "e">>,
     <<"f", "a", "l", "s", "e">>,
     <<"N", "a", "N">>,
     <<"I", "n", "f", "i", "n", "i", "t", "y">>,
     <<"-", "I", "n", "f", "i", "n", "i", "t", "y">>}

\* proper prefixes of keywords
KeywordPrefixPool ==
    {<<"n", "u", "l">>,
     <<"n">>,
     <<"t", "r">>,
     <<"f", "a", "l", "s">>,
     <<"N">>,
     <<"I", "n", "f", "i", "n", "i", "t">>,
     <<"-">>,
     <<"-", "I", "n", "f">>}

\* documents written with a literal separator
LiteralPool ==
    {<<"[", "]">>,
     <<"[", "1", ",", "2", "]">>,
     <<"\"", "a", "\"">>,
     <<"n", "u", "l", "l">>,
     <<"t", "r", "u", "e">>,
     <<"1">>,
     <<"1", ".", "5">>}

InitWith(writings, separators, bufsizes, bounds, offsets) ==
    /\ written \in writings
    /\ source = Render(written)
    /\ srcPos = 0
    /\ separator \in separators
    /\ bufsize \in bufsizes
    /\ max_bufsize \in bounds
    /\ initial_offset \in offsets
    /\ partial_doc = <<>>
    /\ pos = first_pos(separator)
    /\ stream_offset = initial_offset
    /\ pc = "created"
    /\ emitted = <<>>
    /\ error = NoError
    /\ stops = 0
    /\ call = NoCall
    /\ reads = <<>>
    /\ first = NoSession
    /\ iters = 1

\* any text, either policy, unbounded buffer
Init ==
    InitWith(Writings(WellFormedPool \cup MalformedPool, {Blank, Comma}, {0}),
             {NoSeparator, Comma}, Quanta, {Inf}, {0, 10})

Spec == Init /\ [][Next]_vars

\* documents read with a bounded buffer
BoundedPool ==
    {<<"[", "]">>,
     <<"\"", "a", "\"">>,
     <<"1">>,
     <<"1", "2">>,
     <<"n", "u", "l", "l">>,
     <<"t", "r", "u", "e">>,
     <<"[", "1", ",", " ", "2", "]">>,
     <<"{", "\"", "a", "\"", ":", "1", "}">>,
     <<"1", "e", "+", "5">>}

\* integer and decimal literals at the root
InitNumbers ==
    InitWith(Writings(NumberPool, {Blank, <<" ", "\n">>, Comma}, {0}),
             {NoSeparator, Comma}, Quanta, {Inf}, {0})

SpecNumbers == InitNumbers /\ [][Next]_vars

\* keywords, whole or cut short, separated by whitespace
InitKeywords ==
    InitWith(Writings(KeywordPool \cup KeywordPrefixPool, {Blank}, {0}),
             {NoSeparator}, Quanta, {Inf}, {0})

SpecKeywords == InitKeywords /\ [][Next]_vars

\* documents, and integers that end in a decimal point
DanglingPool ==
    {<<"[", "]">>,
     <<"\"", "a", "\"">>,
     <<"n", "u", "l", "l">>,
     <<"1">>,
     <<"1", ".">>,
     <<"1", "2", ".">>}

\* documents joined by a literal separator of one or two units
InitLiteral ==
    InitWith(Writings(LiteralPool, {Comma, <<"a", "b">>}, {0}),
             {Comma, <<"a", "b">>}, Quanta, {Inf}, {0})

SpecLiteral == InitLiteral /\ [][Next]_vars

\* streams that end in an integer with a decimal point
InitDangling ==
    InitWith(Writings(DanglingPool, {Blank}, {0}),
             {NoSeparator}, Quanta, {Inf}, {0})

SpecDangling == InitDangling /\ [][Next]_vars

\* a bounded buffer
InitBounded ==
    InitWith(Writings(BoundedPool, {Blank}, 0..MaxLead),
             {NoSeparator}, Quanta, 1..MaxBound, {0})

SpecBounded == InitBounded /\ [][Next]_vars

\* documents joined by the literal separator written twice
InitEmptyValue ==
    InitWith(Writings(LiteralPool, {Comma \o Comma, <<"a", "b", "a", "b">>}, {0}),
             {Comma, <<"a", "b">>}, Quanta, {Inf}, {0, 10})

SpecEmptyValue == InitEmptyValue /\ [][Next]_vars

\* runs of whitespace
BlankPool ==
    {<<" ">>,
     <<"\t">>,
     <<"\n">>,
     <<" ", "\t", "\n", " ">>}

\* texts of whitespace only, and the empty text; the buffer bounded or not
InitBlank ==
    InitWith(Writings(BlankPool, {Blank}, 0..MaxLead),
             {NoSeparator, Comma}, Quanta, {Inf} \cup (1..MaxBound), {0})

SpecBlank == InitBlank /\ [][Next]_vars

\* documents and malformed texts, some of them longer than a small bound
TerminalPool ==
    {<<"[", "]">>,
     <<"1">>,
     <<"\"", "a", "\"">>,
     <<"x">>,
     <<"[", "1", " ", "2", "]">>,
     <<"n", "u", "l">>}

\* sessions that end in every kind of error: either policy, the joiner
\* matching the separator or not, the buffer bounded or not
InitTerminal ==
    InitWith(Writings(TerminalPool, {Blank, Comma}, {0}),
             {NoSeparator, Comma}, Quanta, {Inf} \cup (1..MaxBound), {0})

SpecTerminal == InitTerminal /\ [][Next]_vars

\* list(loads(s, pos=p, separator=sep)) is evaluated
CallLoads ==
    /\ call # NoCall
    /\ ~call.done
    /\ call' = [call EXCEPT !.done = TRUE,
                            !.out = loads_pos(call.s, call.pos, call.separator)]
    /\ UNCHANGED <<written, source, srcPos, reads, separator, bufsize, max_bufsize,
                   initial_offset, partial_doc, pos, stream_offset, pc, emitted,
                   error, stops, first, iters>>

NextLoads == CallLoads

\* calls of loads on texts of documents, with every start offset in the text
LoadsCalls ==
    UNION {{LoadsCall(Render(w), p, sep) :
                p \in 0..Len(Render(w)), sep \in {NoSeparator, Comma}} :
            w \in Writings(LiteralPool, {Blank, Comma}, {0})}

\* no load session is in progress
InitLoads ==
    /\ call \in LoadsCalls
    /\ written = [docs |-> <<>>, joiner |-> Blank, lead |-> 0]
    /\ source = <<>>
    /\ srcPos = 0
    /\ separator = NoSeparator
    /\ bufsize = DefaultBufsize
    /\ max_bufsize = Inf
    /\ initial_offset = 0
    /\ partial_doc = <<>>
    /\ pos = None
    /\ stream_offset = 0
    /\ pc = "created"
    /\ emitted = <<>>
    /\ error = NoError
    /\ stops = 0
    /\ reads = <<>>
    /\ first = NoSession
    /\ iters = 1

SpecLoads == InitLoads /\ [][NextLoads]_vars

\* texts whose parse fails, or fails until more of them is read, in every way
FailurePool ==
    {<<"[", "1", ".", "5", "]">>,
     <<"[", "n", "u", "l", "l", "]">>,
     <<"{", "\"", "a", "\"", ":", "1", "}">>,
     <<"[", "1", " ", "2", "]">>,
     <<"[", ".", "5", "]">>,
     <<".", "5">>,
     <<"{", "1", "}">>,
     <<"{", "\"", "a", "\"", " ", "1", "}">>,
     <<"\"", "\\", "x", "\"">>,
     <<"\"", "\t", "\"">>,
     <<"[", "n", "u", "x", "]">>,
     <<"n", "u", "l">>}

InitFailures ==
    InitWith(Writings(FailurePool, {Blank}, {0}),
             {NoSeparator}, Quanta, {Inf}, {0})

SpecFailures == InitFailures /\ [][Next]_vars

\* stream_offset arguments of a second session
OtherOffsets == {1, 10}

\* a finished session is followed by a second one over the same text, with
\* the same quantum, separator and bound and another stream_offset argument
LoadAgain ==
    /\ pc \in {"returned", "raised"}
    /\ first = NoSession
    /\ first' = Session(emitted, reads, pc, error, initial_offset, stream_offset)
    /\ initial_offset' \in OtherOffsets \ {initial_offset}
    /\ stream_offset' = initial_offset'
    /\ srcPos' = 0
    /\ reads' = <<>>
    /\ partial_doc' = <<>>
    /\ pos' = first_pos(separator)
    /\ pc' = "created"
    /\ emitted' = <<>>
    /\ error' = NoError
    /\ stops' = 0
    /\ UNCHANGED <<written, source, separator, bufsize, max_bufsize, call, iters>>

NextTwice == Next \/ LoadAgain

\* two sessions, one after the other, that differ in the stream_offset argument
SpecTwice == InitTerminal /\ [][NextTwice]_vars

\* __iter__ starting a new generator on every call
IterAfresh ==
    /\ iters < MaxIters
    /\ iters' = iters + 1
    /\ pc' = "created"
    /\ UNCHANGED <<written, source, srcPos, reads, separator, bufsize, max_bufsize,
                   initial_offset, partial_doc, pos, stream_offset, emitted, error,
                   stops, call, first>>

\* __iter__: the generator is created by the first call and returned by
\* every call; load makes the first call
Iter ==
    /\ iters < MaxIters
    /\ iters' = iters + 1
    /\ pc' = IF iters = 0 THEN "created" ELSE pc
    /\ UNCHANGED <<written, source, srcPos, reads, separator, bufsize, max_bufsize,
                   initial_offset, partial_doc, pos, stream_offset, emitted, error,
                   stops, call, first>>

NextIter == Next \/ Iter

\* a session whose iterator is obtained again at any point
SpecIter == Init /\ [][NextIter]_vars

\* documents and texts that fail at once, at their end, or never
ConsumedPool ==
    {<<"[", "]">>,
     <<"1">>,
     <<"n", "u", "l", "l">>,
     <<"1", ".">>,
     <<"\"", "a">>}

InitConsumed ==
    InitWith(Writings(ConsumedPool, {Blank, Comma}, {0}),
             {NoSeparator, Comma}, Quanta, {Inf, MaxBufsize}, {0})

\* a session over a finite source whose caller keeps asking for the next
\* value: a generator that was resumed runs on to its next yield, return or
\* raise
SpecConsumed ==
    /\ InitConsumed
    /\ [][Next]_vars
    /\ WF_vars(Request)
    /\ WF_vars(Begin)
    /\ WF_vars(NextPos)
    /\ WF_vars(Decode)

\* --------------------------------------------------------------- claims --

Terminated == pc \in {"returned", "raised"}

\* the text is one whole document
WellFormed(d) ==
    LET r == raw_decode(d, 0) IN r.st = "ok" /\ r.end = Len(d)

ValueOf(d) == raw_decode(d, 0).obj

\* the values of the documents written to the stream
Expected == [i \in 1..Len(written.docs) |-> ValueOf(written.docs[i])]

AllWellFormed == \A i \in 1..Len(written.docs) : WellFormed(written.docs[i])

IsWhitespace(t) == t # <<>> /\ \A i \in 1..Len(t) : t[i] \in ReSpace

IsPrefixSeq(a, b) == Len(a) <= Len(b) /\ SubSeq(b, 1, Len(a)) = a

\* the result of the parse that the next round of the loop starts with
Parsed == raw_decode(partial_doc, pos)

\* C1: under the whitespace policy with an unbounded buffer, a stream of
\* well-formed documents separated by whitespace yields exactly their
\* values in order and then ends without error, for every read quantum.
C1_WhitespaceStream ==
    (/\ separator = NoSeparator
     /\ max_bufsize = Inf
     /\ IsWhitespace(written.joiner)
     /\ AllWellFormed
     /\ Terminated)
    => (pc = "returned" /\ emitted = Expected)

\* C2: under the literal policy, a stream of well-formed documents joined
\* by the separator, without a trailing separator, yields exactly their
\* values in order and then ends without error, for every read quantum.
C2_LiteralStream ==
    (/\ separator # NoSeparator
     /\ written.joiner = separator
     /\ written.lead = 0
     /\ max_bufsize = Inf
     /\ AllWellFormed
     /\ Terminated)
    => (pc = "returned" /\ emitted = Expected)

\* C3: with an unbounded buffer, load emits the same values as loads on the
\* same text and finishes with the same outcome: normal end, or an error of
\* the same kind and message.
C3_SameAsLoads ==
    (max_bufsize = Inf /\ Terminated)
    => LET o == loads(source, separator)
       IN  /\ emitted = o.values
           /\ pc = o.result
           /\ error.type = o.type
           /\ error.msg = o.msg

\* C4: the position of a decode error plus the reported stream offset is the
\* index in the source at which the parser stopped, plus the initial offset.
C4_GlobalPosition ==
    (pc = "raised" /\ error.type = "JSONDecodeError")
    => error.pos + error.stream_offset = initial_offset + error.source_index

\* an integer literal followed by a decimal point and nothing else
DanglingPoint(d) ==
    /\ Len(d) >= 2
    /\ d[Len(d)] = "."
    /\ raw_decode(d, 0).st = "ok"
    /\ raw_decode(d, 0).obj.t = "int"
    /\ raw_decode(d, 0).end = Len(d) - 1

\* C5: a root-level number that ends in a decimal point right before the
\* end of the source makes decoding end in an 'Expecting value' error,
\* whatever the quantum and whether or not documents precede it.
C5_DanglingPoint ==
    (/\ separator = NoSeparator
     /\ max_bufsize = Inf
     /\ IsWhitespace(written.joiner)
     /\ Len(written.docs) >= 1
     /\ DanglingPoint(written.docs[Len(written.docs)])
     /\ \A i \in 1..(Len(written.docs) - 1) : WellFormed(written.docs[i])
     /\ Terminated)
    => (pc = "raised" /\ error.type = "JSONDecodeError" /\ error.msg = "Expecting value")

\* an integer or decimal literal: a number without an exponent part
PlainNumber(d) ==
    /\ WellFormed(d)
    /\ ValueOf(d).t \in {"int", "float"}
    /\ \A i \in 1..Len(d) : d[i] \notin {"e", "E"}

NumberStream ==
    /\ max_bufsize = Inf
    /\ IF separator = NoSeparator THEN IsWhitespace(written.joiner)
       ELSE written.joiner = separator
    /\ \A i \in 1..Len(written.docs) : PlainNumber(written.docs[i])

\* C6: a root-level integer or decimal literal split by a refill is emitted
\* once and whole: a numeric result that ends within one unit of the end of
\* the buffer is discarded and parsed again from the same start when the
\* refill brings data, and is accepted only when the source is exhausted;
\* whitespace-separated numbers decode to their values for every quantum.
C6_SplitNumber ==
    [][NumberStream =>
        /\ IsPrefixSeq(emitted', Expected)
        /\ Terminated' => emitted' = Expected
        /\ (Terminated' /\ separator = NoSeparator) => pc' = "returned"
        /\ (pc = "decode" /\ Parsed.st = "ok"
                /\ number_may_be_split(Parsed.end, partial_doc, Parsed.obj))
           => IF srcPos < Len(source)
              THEN /\ pc' = "decode"
                   /\ emitted' = emitted
                   /\ pos' = 0
                   /\ partial_doc' = Tail0(partial_doc, pos) \o stream_read(bufsize)
              ELSE /\ pc' = "yielded"
                   /\ emitted' = Append(emitted, Parsed.obj)]_vars

\* `1 234` has been read one unit at a time and decoded as 1 and 234
C6_Witness ==
    /\ NumberStream
    /\ separator = NoSeparator
    /\ written.docs = << <<"1">>, <<"2", "3", "4">> >>
    /\ bufsize = 1
    /\ pc = "returned"
    /\ emitted = <<IntVal(1), IntVal(234)>>

IsKeyword(d) == \E i \in 1..Len(KEYWORDS) : d = KEYWORDS[i]

IsKeywordPrefix(d) ==
    /\ d # <<>>
    /\ ~IsKeyword(d)
    /\ \E i \in 1..Len(KEYWORDS) : IsPrefixOf(d, KEYWORDS[i])

\* keywords separated by whitespace, the last one possibly cut short
KeywordStream ==
    /\ separator = NoSeparator
    /\ max_bufsize = Inf
    /\ IsWhitespace(written.joiner)
    /\ \A i \in 1..(Len(written.docs) - 1) : IsKeyword(written.docs[i])
    /\ Len(written.docs) >= 1
        => \/ IsKeyword(written.docs[Len(written.docs)])
           \/ IsKeywordPrefix(written.docs[Len(written.docs)])

CutShort ==
    Len(written.docs) >= 1 /\ IsKeywordPrefix(written.docs[Len(written.docs)])

\* C7: a keyword delivered in fragments is decoded whole: an 'Expecting
\* value' failure whose remainder at the end of the buffer is a prefix of a
\* keyword is followed by a refill and a retry, whitespace-separated
\* keywords decode to their values for every quantum, and a keyword cut
\* short by the end of the source ends in an 'Expecting value' error.
C7_SplitKeyword ==
    [][KeywordStream =>
        /\ (Terminated' /\ ~CutShort) => (pc' = "returned" /\ emitted' = Expected)
        /\ (Terminated' /\ CutShort)
           => /\ pc' = "raised"
              /\ error'.type = "JSONDecodeError"
              /\ error'.msg = "Expecting value"
              /\ emitted' = SubSeq(Expected, 1, Len(written.docs) - 1)
        /\ (pc = "decode" /\ Parsed.st = "err" /\ Parsed.msg = "Expecting value"
                /\ Parsed.end < Len(partial_doc)
                /\ \E i \in 1..Len(KEYWORDS) :
                       IsPrefixOf(Tail0(partial_doc, Parsed.end), KEYWORDS[i]))
           => IF srcPos < Len(source)
              THEN /\ pc' = "decode"
                   /\ srcPos' > srcPos
                   /\ partial_doc' = Tail0(partial_doc, pos) \o stream_read(bufsize)
              ELSE pc' = "raised"]_vars

\* `null true` has been read one unit at a time and decoded as null and true
C7_Witness ==
    /\ KeywordStream
    /\ written.docs = <<kw_null, kw_true>>
    /\ bufsize = 1
    /\ pc = "returned"
    /\ emitted = <<NullVal, BoolVal(TRUE)>>

\* C8: one value whose text has length L is decoded with max_bufsize = L for
\* every quantum, whatever whitespace precedes it, and the buffer-size error
\* is raised only for a document longer than max_bufsize.
C8_ExactBound ==
    /\ (/\ separator = NoSeparator
        /\ Len(written.docs) = 1
        /\ WellFormed(written.docs[1])
        /\ max_bufsize = Len(written.docs[1])
        /\ Terminated)
       => (pc = "returned" /\ emitted = Expected)
    /\ (/\ separator = NoSeparator
        /\ AllWellFormed
        /\ pc = "raised"
        /\ error.msg = "max buffer size exceeded")
       => \E i \in 1..Len(written.docs) : Len(written.docs[i]) > max_bufsize

\* C9: the buffer is never longer than max_bufsize, a refill never reads
\* more than min(quantum, max_bufsize - len(tail)) units, and a stream with a
\* document longer than max_bufsize ends in 'max buffer size exceeded'.
C9_BufferBound ==
    /\ max_bufsize # Inf => Len(partial_doc) <= max_bufsize
    /\ (/\ max_bufsize # Inf
        /\ AllWellFormed
        /\ \E i \in 1..Len(written.docs) : Len(written.docs[i]) > max_bufsize
        /\ Terminated)
       => (pc = "raised" /\ error.msg = "max buffer size exceeded")

\* C10: once the first position is set, 0 <= cursor <= length(Buffer) in
\* every state of the session.
C10_CursorInBuffer ==
    pos # None => (0 <= pos /\ pos <= Len(partial_doc))

\* C11: under the literal policy, two consecutive separators with nothing
\* between them end in an 'Expecting value' decode error, not in a delimiter
\* error, and the error's position plus stream offset is the source index
\* right after the first separator, for every read quantum.
C11_EmptyValue ==
    (/\ separator # NoSeparator
     /\ written.joiner = separator \o separator
     /\ Len(written.docs) >= 2
     /\ AllWellFormed
     /\ Terminated)
    => /\ pc = "raised"
       /\ error.type = "JSONDecodeError"
       /\ error.msg = "Expecting value"
       /\ error.pos + error.stream_offset
              = initial_offset + Len(written.docs[1]) + Len(separator)

\* C12: empty input and whitespace-only input yield an empty sequence and no
\* error, from load for every read quantum and from loads; for empty input
\* under the whitespace policy and under a literal separator alike.
C12_EmptyInput ==
    (source = <<>> \/ (separator = NoSeparator /\ IsWhitespace(source)))
    => /\ emitted = <<>>
       /\ pc # "raised"
       /\ error = NoError
       /\ loads(source, separator) = Outcome(<<>>, "returned", "", "", None)

\* the whitespace text of test_empty_document has been read one unit at a
\* time to its end and the sequence has ended
C12_Witness ==
    /\ separator = NoSeparator
    /\ source = <<" ", "\t", "\n", " ">>
    /\ bufsize = 1
    /\ srcPos = Len(source)
    /\ pc = "returned"
    /\ stops = MaxStops
    /\ emitted = <<>>

\* C13: every error that ends a load session carries the stream offset of
\* the session: a decode error of malformed input, a delimiter error of the
\* literal policy, and a buffer-size error of a refill.
C13_ErrorEnriched ==
    pc = "raised" => (error.stream_offset # None /\ error.stream_offset = stream_offset)

\* C14: once an error has been raised to the caller the session is over for
\* good: every later request reports the end of the sequence, no further
\* value is emitted, nothing more is read from the source, and the engine
\* does not go on to a later document.
C14_FinishedForGood ==
    [][error # NoError =>
        /\ pc = "raised"
        /\ pc' = "raised"
        /\ stops' = stops + 1
        /\ emitted' = emitted
        /\ srcPos' = srcPos
        /\ error' = error
        /\ <<partial_doc, pos, stream_offset>>' = <<partial_doc, pos, stream_offset>>]_vars

\* `x []` was rejected at its first unit, the document after it is still
\* unread, and a later request has been answered with the end of the sequence
C14_Witness ==
    /\ written.docs = << <<"x">>, <<"[", "]">> >>
    /\ bufsize = 1
    /\ pc = "raised"
    /\ error.type = "JSONDecodeError"
    /\ stops = MaxStops
    /\ emitted = <<>>
    /\ srcPos < Len(source)

\* C15: loads(s, pos=k) starts parsing s at offset k: the units before
\* index k are not parsed, and the values are those of the text from index k
\* on, with the same end.
C15_LoadsFromPos ==
    call.done
    => LET o == loads(Tail0(call.s, call.pos), call.separator)
       IN  /\ call.out.values = o.values
           /\ call.out.result = o.result
           /\ call.out.type = o.type
           /\ call.out.msg = o.msg

\* the kind of a decode failure
FailureKind(msg) ==
    CASE msg = "Unterminated string starting at" -> "unterminated-string"
      [] msg = "Expecting value" -> "expecting-value"
      [] msg = "Expecting property name enclosed in double quotes"
            -> "expecting-property-name"
      [] msg \in {"Expecting ',' delimiter", "Expecting ':' delimiter"}
            -> "expecting-structural-delimiter"
      [] OTHER -> "other"

LongestKeyword == Len(kw_NegInfinity)

\* a failure of the given kind at position p of the buffer is retriable
Retriable(kind, p, buffer) ==
    \/ kind = "unterminated-string"
    \/ /\ kind \in {"expecting-value", "expecting-property-name",
                    "expecting-structural-delimiter"}
       /\ \/ p = Len(buffer)
          \/ /\ p = Len(buffer) - 1
             /\ At(buffer, p) = "."
             /\ p >= 1
             /\ At(buffer, p - 1) \in Digits
          \/ /\ kind = "expecting-value"
             /\ Len(Tail0(buffer, p)) < LongestKeyword
             /\ \E i \in 1..Len(KEYWORDS) : IsPrefixSeq(Tail0(buffer, p), KEYWORDS[i])

\* C16: a decode failure is classified retriable exactly when it is an
\* unterminated string, or an expecting-value / property-name / delimiter
\* failure at the end of the buffer, at a decimal point that is the last unit
\* after a digit, or (expecting-value) before a remainder that is a prefix of
\* a keyword; with data left in the source a retriable failure is followed by
\* a refill and a retry, every other failure by the error.
C16_Classification ==
    [][(pc = "decode" /\ Parsed.st = "err") =>
        LET retriable == Retriable(FailureKind(Parsed.msg), Parsed.end, partial_doc)
        IN  /\ match_error(Parsed.msg, Parsed.end, partial_doc) <=> retriable
            /\ srcPos < Len(source)
               => IF retriable
                  THEN pc' = "decode" /\ srcPos' > srcPos /\ error' = NoError
                  ELSE pc' = "raised" /\ srcPos' = srcPos]_vars

\* `[1.5]` read three units at a time: the failure at the decimal point that
\* ends the buffer `[1.` was retried and the document decoded
C16_Witness ==
    /\ written.docs = << <<"[", "1", ".", "5", "]">> >>
    /\ bufsize = 3
    /\ pc = "returned"
    /\ emitted = <<ListVal(<<Normalise(15, -1)>>)>>

\* C17: a failure that is not retriable, and a mismatch of the literal
\* separator, is raised at once: nothing is read from the source and the
\* parser is not run again before the error reaches the caller; the parser
\* is run again on a buffer only after a refill that delivered new data.
C17_NoRetry ==
    [][/\ (/\ pc = "decode"
           /\ Parsed.st = "err"
           /\ ~Retriable(FailureKind(Parsed.msg), Parsed.end, partial_doc))
          => /\ pc' = "raised"
             /\ srcPos' = srcPos
             /\ partial_doc' = partial_doc
             /\ error'.type = "JSONDecodeError"
             /\ error'.msg = Parsed.msg
             /\ error'.pos = Parsed.end
       /\ (pc = "next_pos" /\ next_pos_helper(separator, partial_doc, pos) = Raises)
          => /\ pc' = "raised"
             /\ srcPos' = srcPos
             /\ partial_doc' = partial_doc
             /\ error'.type = "ValueError"
             /\ error'.msg = delimiter_message(separator)
       /\ (pc = "decode" /\ pc' = "decode")
          => /\ srcPos' > srcPos
             /\ partial_doc' = Tail0(partial_doc, pos) \o SubSeq(source, srcPos + 1, srcPos')
      ]_vars

\* `[1 2] []` read three units at a time: the failure at the end of `[1 ` was
\* retried after a refill, the failure inside `[1 2]` was raised with the
\* rest of the source unread
C17_Witness ==
    /\ written.docs = << <<"[", "1", " ", "2", "]">>, <<"[", "]">> >>
    /\ written.joiner = Blank
    /\ separator = NoSeparator
    /\ bufsize = 3
    /\ max_bufsize = Inf
    /\ pc = "raised"
    /\ error.msg = "Expecting ',' delimiter"
    /\ srcPos = 6
    /\ srcPos < Len(source)

\* t is what is left of s after dropping units from its front
IsSuffixSeq(t, s) == Len(t) <= Len(s) /\ SubSeq(s, Len(s) - Len(t) + 1, Len(s)) = t

\* C18: the stream offset never decreases, and in every state the stream
\* offset plus the length of the buffer is the initial offset plus the
\* number of units read so far: a refill advances the offset by the number
\* of units dropped from the front of the old buffer and leaves the retained
\* tail followed by the units it read.
C18_OffsetAccounting ==
    /\ [](stream_offset + Len(partial_doc) = initial_offset + srcPos)
    /\ [][/\ stream_offset' >= stream_offset
          /\ (partial_doc' # partial_doc \/ srcPos' # srcPos \/ stream_offset' # stream_offset)
             => \E k \in 0..Len(partial_doc) :
                    /\ stream_offset' = stream_offset + k
                    /\ srcPos' >= srcPos
                    /\ partial_doc' = Tail0(partial_doc, k)
                                          \o SubSeq(source, srcPos + 1, srcPos')]_vars

\* `[] [1, 2]` read three units at a time from initial offset 10: `[] ` has
\* been dropped and the tail `[1,` kept in front of the next three units
C18_Witness ==
    /\ initial_offset = 10
    /\ bufsize = 3
    /\ written.docs = << <<"[", "]">>, <<"[", "1", ",", " ", "2", "]">> >>
    /\ written.joiner = Blank
    /\ separator = NoSeparator
    /\ stream_offset = 13
    /\ partial_doc = <<"[", "1", ",", " ", "2", "]">>
    /\ srcPos = 9

\* C19: the stream offset never affects parsing: a second session over the
\* same text with the same quantum, separator and bound but another initial
\* stream offset emits the same values, performs the same reads, and ends
\* with the same outcome and the same local error position; the two differ
\* only in the stream offset.
C19_OffsetIndependence ==
    first # NoSession
    => /\ IsPrefixSeq(emitted, first.emitted)
       /\ IsPrefixSeq(reads, first.reads)
       /\ Terminated
          => /\ emitted = first.emitted
             /\ reads = first.reads
             /\ pc = first.pc
             /\ error.type = first.error.type
             /\ error.msg = first.error.msg
             /\ error.pos = first.error.pos
             /\ stream_offset - initial_offset
                    = first.stream_offset - first.initial_offset
             /\ IF first.error.type = "JSONDecodeError"
                THEN error.stream_offset - initial_offset
                         = first.error.stream_offset - first.initial_offset
                ELSE error.stream_offset = first.error.stream_offset

\* `[] x` was read one unit at a time from offset 0, then again from offset
\* 10: both sessions emitted [] and failed at local position 0, with the
\* stream offsets 3 and 13
C19_Witness ==
    /\ first # NoSession
    /\ first.initial_offset = 0
    /\ initial_offset = 10
    /\ written.docs = << <<"[", "]">>, <<"x">> >>
    /\ written.joiner = Blank
    /\ separator = NoSeparator
    /\ bufsize = 1
    /\ max_bufsize = Inf
    /\ pc = "raised"
    /\ emitted = <<ListVal(<<>>)>>
    /\ error.pos = 0
    /\ first.error.stream_offset = 3
    /\ error.stream_offset = 13

\* the cursor in the coordinates of the whole stream
Cursor == stream_offset - initial_offset + (IF pos = None THEN 0 ELSE pos)

\* C20: the session is lazy and has one consumer: nothing is read before the
\* first request nor between the emission of a value and the next request,
\* obtaining the iterator again returns the same iteration and changes
\* nothing, values are only appended, the source and the cursor never go
\* back, and every emitted value moves the cursor forward, so that no value
\* is emitted twice and the sequence is never restarted.
C20_LazyForwardOnly ==
    /\ [](pc = "created" => (srcPos = 0 /\ reads = <<>> /\ emitted = <<>>))
    /\ [][/\ (srcPos' # srcPos \/ reads' # reads) => pc \in {"start", "next_pos", "decode"}
          /\ pc \in {"created", "yielded"}
             => UNCHANGED <<srcPos, reads, partial_doc, pos, stream_offset, emitted>>
          /\ iters' # iters
             => UNCHANGED <<pc, srcPos, reads, partial_doc, pos, stream_offset,
                            emitted, error, stops>>
          /\ emitted' = emitted
             \/ (Len(emitted') = Len(emitted) + 1
                    /\ SubSeq(emitted', 1, Len(emitted)) = emitted
                    /\ Cursor' > Cursor)
          /\ srcPos' >= srcPos
          /\ pc' \in {"next_pos", "decode", "yielded"} => Cursor' >= Cursor
          /\ pc' = "created" => pc = "created"
          /\ pc' = "start" => pc \in {"created", "start"}]_vars

\* `[] []` read three units at a time: the iterator was obtained again after
\* the first value, and the second request went on to the second value
C20_Witness ==
    /\ written.docs = << <<"[", "]">>, <<"[", "]">> >>
    /\ written.joiner = Blank
    /\ separator = NoSeparator
    /\ bufsize = 3
    /\ iters = MaxIters
    /\ pc = "returned"
    /\ emitted = <<ListVal(<<>>), ListVal(<<>>)>>
    /\ reads = << <<3, 3>>, <<3, 2>>, <<3, 0>> >>

\* a request is being served
Serving == pc \in {"start", "next_pos", "decode"}

\* C21: over a finite source every request ends with a value, the end of the
\* sequence or an error, and the sequence is finite: the parser or the
\* separator policy is run again on the buffer only after a refill that read
\* at least one new unit, and every accepted value moves the cursor forward
\* by at least one unit.
C21_Termination ==
    /\ Serving ~> (pc \in {"yielded", "returned", "raised"})
    /\ <>Terminated
    /\ [][/\ (pc = pc' /\ Serving) => Len(SubSeq(source, srcPos + 1, srcPos')) >= 1
          /\ (pc = "decode" /\ emitted' # emitted)
             => /\ Parsed.st = "ok"
                /\ Parsed.end >= pos + 1
                /\ Cursor' >= Cursor + 1]_vars

\* the text `null 1` read one unit at a time to its end: six reads delivered
\* a unit each, the reads after them none
C21_Witness ==
    /\ written.docs = << kw_null, <<"1">> >>
    /\ written.joiner = Blank
    /\ separator = NoSeparator
    /\ bufsize = 1
    /\ max_bufsize = Inf
    /\ pc = "returned"
    /\ emitted = <<NullVal, IntVal(1)>>
    /\ srcPos = Len(source)
    /\ Len(reads) > Len(source)
    /\ stops = MaxStops

====
